---- MODULE Spec2Model ----
(***************************************************************************)
(* Model of js/Game.js: the Game orchestrator of flat-candies.             *)
(*                                                                         *)
(* The game object owns three live collections (players, pellets,          *)
(* blackHoles), three staging arrays (eatenPellets, eatenSprites,          *)
(* deadBlackHoles), the tick counter framesElapsed and the two flags       *)
(* started / paused.  One action per public method; run() is one atomic    *)
(* action because JavaScript runs a handler to completion.                 *)
(*                                                                         *)
(* Sprite, Pellet, BlackHole and GameData are other files of the           *)
(* repository; their methods are modelled from the written specification   *)
(* (suckPellet, suckSprite, isDead, eatPellet, eatOtherSprite, control,    *)
(* display, and the four eligibility predicates).                          *)
(***************************************************************************)
EXTENDS Integers, Sequences, FiniteSets, TLC

\* ---- bounds of the exploration ------------------------------------------
MaxPlayers == 3     \* sprites ever handed to addPlayer
MaxPellets == 2     \* pellets alive at the same time
MaxHoles   == 2     \* black holes ever spawned
MaxLife    == 3     \* largest lifeSpan a black hole is spawned with
MaxFrame   == 1     \* largest frame number handed to update or read by a tick
MaxSize    == 2     \* the size at which a sprite stops growing
NumCells   == 2     \* places on the canvas

\* ---- GameData values read by Game.js --------------------------------------
SpriteSize         == 1   \* data.sprites.size
PelletValue        == 1   \* data.pellets.value
BlackHolePower     == 1   \* data.blackHoles.power
SpawnInterval      == 2   \* data.blackHoles.spawnInterval
NewPelletsInterval == 2   \* data.pellets.newPelletsInterval
NewQuantity        == 1   \* data.pellets.newQuantity

Cells     == 1..NumCells
SpriteIds == 1..MaxPlayers
PelletIds == 1..MaxPellets
HoleIds   == 1..MaxHoles

VARIABLES
    players,         \* this.players: array of sprites (identities)
    pellets,         \* this.pellets
    blackHoles,      \* this.blackHoles
    eatenPellets,    \* this.eatenPellets
    eatenSprites,    \* this.eatenSprites
    deadBlackHoles,  \* this.deadBlackHoles
    framesElapsed,   \* this.framesElapsed
    started,         \* this.started: "undefined" | "true" | "false"
    paused,          \* this.paused:  "undefined" | "true" | "false"
    spActual,        \* sprite -> actualSize
    bhLife,          \* black hole -> remaining lifeSpan
    nSprites,        \* sprites created so far
    nHoles,          \* black holes created so far
    lastOp,          \* history: the last public method called
    tick,            \* history: what the last run() did
    drainedEver,   \* history: sprites ever drained to <= 0 by a black hole
    deadEver,      \* history: black holes ever found dead by isDead
    pauseHeld,       \* history: pause() called and no continue() since
    pauseInForce,    \* history: pause() called, no continue()/successful start() since
    quietTicks       \* history: running ticks since the last one that replenished

gameVars == <<players, pellets, blackHoles, eatenPellets, eatenSprites,
              deadBlackHoles, framesElapsed, started, paused>>
entVars  == <<spActual, bhLife, nSprites, nHoles>>
histVars == <<lastOp, tick, drainedEver, deadEver, pauseHeld, pauseInForce,
             quietTicks>>
vars     == <<gameVars, entVars, histVars>>

\* ---- JavaScript array helpers -------------------------------------------

\* Array.prototype.indexOf: 0-based index of the first occurrence, or -1.
IndexOf(s, x) ==
    IF \E i \in 1..Len(s) : s[i] = x
    THEN (CHOOSE i \in 1..Len(s) : s[i] = x /\ \A j \in 1..(i-1) : s[j] # x) - 1
    ELSE -1

\* Array.prototype.splice( idx, 1 ): a negative idx counts from the end.
Splice1(s, idx) ==
    LET n     == Len(s)
        start == IF idx < 0 THEN (IF n + idx < 0 THEN 0 ELSE n + idx)
                 ELSE (IF idx > n THEN n ELSE idx)
    IN  IF start >= n THEN s
        ELSE [i \in 1..(n-1) |-> IF i <= start THEN s[i] ELSE s[i+1]]

Range(s) == {s[i] : i \in 1..Len(s)}

\* a JavaScript value used as a condition
Truthy(v) == v = "true"

\* quietTicks counts up to here: a replenishment this many running ticks
\* after the last one comes a whole interval later
QuietCap == NewPelletsInterval - 1

\* ---- the record of one tick ---------------------------------------------
EmptyTick ==
    [ran |-> FALSE, frame |-> 0,
     spawned |-> <<>>, scanned |-> <<>>, sucked |-> <<>>, drains |-> <<>>,
     dead |-> <<>>,
     holesAtFlush |-> <<>>, holesAfterFlush |-> <<>>,
     pelletsAtSuck |-> <<>>, pelletsAfterSuck |-> <<>>,
     controlled |-> <<>>, atePellet |-> <<>>,
     pelletsAtEat |-> <<>>, pelletsAfterEat |-> <<>>,
     pairs |-> <<>>, ateSprite |-> <<>>,
     playersAtFlush |-> <<>>, playersAfterFlush |-> <<>>,
     placed |-> <<>>, quietBefore |-> 0,
     lateSprites |-> {}, lateHoles |-> {}]

Init ==
    /\ players = <<>> /\ pellets = <<>> /\ blackHoles = <<>>
    /\ eatenPellets = <<>> /\ eatenSprites = <<>> /\ deadBlackHoles = <<>>
    /\ framesElapsed = 0
    /\ started = "undefined" /\ paused = "undefined"
    /\ spActual = [s \in SpriteIds |-> 0]
    /\ bhLife = [h \in HoleIds |-> 0]
    /\ nSprites = 0 /\ nHoles = 0
    /\ lastOp = "new" /\ tick = EmptyTick
    /\ drainedEver = {} /\ deadEver = {}
    /\ pauseHeld = FALSE /\ pauseInForce = FALSE
    /\ quietTicks = QuietCap

\* ---- GameData predicates and entity methods (other files) --------------

\* data.blackHoles.canSuckPellet: proximity of black hole and pellet
canSuckPellet(g, h, p) == g.bhPos[h] = g.pePos[p]

\* data.blackHoles.canSuckSprite: proximity of black hole and sprite
canSuckSprite(g, h, s) == g.bhPos[h] = g.spPos[s]

\* data.sprites.canEatPellet: proximity of sprite and pellet
canEatPellet(g, s, p) == g.spPos[s] = g.pePos[p]

\* data.sprites.canEatSprite: proximity, and the eater is not the smaller one
canEatSprite(g, a, b) ==
    g.spPos[a] = g.spPos[b] /\ g.spActual[a] >= g.spActual[b]

\* data.sprites.value: the value function of the configuration
SpriteValue(size) == size

\* BlackHole.display: renders, and counts the life span down once per tick
display(g, h) ==
    [g EXCEPT !.bhLife[h] = IF @ > 0 THEN @ - 1 ELSE 0,
              !.log.scanned = Append(@, h)]

\* BlackHole.isDead: the life span is exhausted
isDead(g, h) == g.bhLife[h] <= 0

\* BlackHole.suckPellet( pellet, eatenSet ): stages the pellet
suckPellet(g, h, p) ==
    [g EXCEPT !.eatenPellets = Append(@, p),
              !.log.sucked = Append(@, <<h, p>>)]

\* BlackHole.suckSprite( sprite ): drains the sprite by the hole's power
suckSprite(g, h, s) ==
    [g EXCEPT !.spActual[s] = @ - BlackHolePower,
              !.log.drains = Append(@, <<h, s, g.spActual[s] - BlackHolePower>>)]

\* the growth of a sprite stops at its cap
Grown(size, by) == IF size + by > MaxSize THEN MaxSize ELSE size + by

\* Sprite.eatPellet( pellet, eatenSet ): grows and stages the pellet
eatPellet(g, s, p) ==
    [g EXCEPT !.spActual[s] = Grown(@, PelletValue),
              !.eatenPellets = Append(@, p),
              !.log.atePellet = Append(@, <<s, p>>)]

\* Sprite.eatOtherSprite( other, eatenSet ): grows by other.value, stages other
eatOtherSprite(g, s, o, value) ==
    [g EXCEPT !.spActual[s] = Grown(@, value),
              !.eatenSprites = Append(@, o),
              !.log.ateSprite = Append(@, <<s, o, value, g.spActual[o]>>)]

\* ---- the steps of run() -------------------------------------------------

\* spawnBlackHole( interval ): one new black hole when the frame is due
SpawnDue(fc) == fc % SpawnInterval = 0

spawnBlackHole(g, fc, life) ==
    IF SpawnDue(fc)
    THEN LET h == g.nHoles + 1
         IN  [g EXCEPT !.blackHoles = Append(@, h),
                       !.nHoles = h,
                       !.bhLife[h] = life,
                       !.log.spawned = Append(@, h)]
    ELSE g

\* this.pellets.forEach inside the black hole scan
RECURSIVE HoleSucksPellets(_, _, _)
HoleSucksPellets(g, h, j) ==
    IF j > Len(g.pellets) THEN g
    ELSE LET p == g.pellets[j]
         IN  HoleSucksPellets(IF canSuckPellet(g, h, p) THEN suckPellet(g, h, p) ELSE g,
                              h, j + 1)

\* a black hole scan that takes a drained sprite out of players at once
HoleSucksSpriteRemovesAtOnce(g, h, s) ==
    IF canSuckSprite(g, h, s)
    THEN LET g1 == suckSprite(g, h, s)
         IN  IF g1.spActual[s] <= 0
             THEN [g1 EXCEPT !.players = Splice1(@, IndexOf(@, s))]
             ELSE g1
    ELSE g

\* the body of this.players.forEach inside the black hole scan
HoleSucksSprite(g, h, s) ==
    IF canSuckSprite(g, h, s)
    THEN LET g1 == suckSprite(g, h, s)
         IN  IF g1.spActual[s] <= 0
             THEN [g1 EXCEPT !.eatenSprites = Append(@, s)]
             ELSE g1
    ELSE g

RECURSIVE HoleSucksSprites(_, _, _)
HoleSucksSprites(g, h, j) ==
    IF j > Len(g.players) THEN g
    ELSE HoleSucksSprites(HoleSucksSprite(g, h, g.players[j]), h, j + 1)

\* the body of this.blackHoles.forEach
HoleActs(g, h) ==
    LET g1 == display(g, h)
        g2 == HoleSucksPellets(g1, h, 1)
        g3 == HoleSucksSprites(g2, h, 1)
    IN  IF isDead(g3, h)
        THEN [g3 EXCEPT !.deadBlackHoles = Append(@, h),
                        !.log.dead = Append(@, h)]
        ELSE g3

RECURSIVE HazardScan(_, _)
HazardScan(g, i) ==
    IF i > Len(g.blackHoles) THEN g
    ELSE HazardScan(HoleActs(g, g.blackHoles[i]), i + 1)

HazardAction(g) == HazardScan(g, 1)

\* the index handed to this.blackHoles.splice for a staged black hole
DeadHoleIndex(live, dead, h) == IndexOf(dead, h)

RECURSIVE RemoveDeadFrom(_, _, _)
RemoveDeadFrom(live, dead, i) ==
    IF i > Len(dead) THEN live
    ELSE RemoveDeadFrom(Splice1(live, DeadHoleIndex(live, dead, dead[i])), dead, i + 1)

\* "Remove dead black holes"
FlushDeadHazards(g) ==
    LET after == RemoveDeadFrom(g.blackHoles, g.deadBlackHoles, 1)
    IN  [g EXCEPT !.log.holesAtFlush = g.blackHoles,
                  !.log.holesAfterFlush = after,
                  !.blackHoles = after,
                  !.deadBlackHoles = <<>>]

\* eaten.forEach( e => live.splice( live.indexOf( e ), 1 ) )
RECURSIVE RemoveStagedFrom(_, _, _)
RemoveStagedFrom(live, staged, i) ==
    IF i > Len(staged) THEN live
    ELSE RemoveStagedFrom(Splice1(live, IndexOf(live, staged[i])), staged, i + 1)

\* a flush that empties the staging array and leaves the sucked pellets alive
FlushSuckedPelletsRemovesNothing(g) ==
    [g EXCEPT !.log.pelletsAtSuck = g.pellets,
              !.log.pelletsAfterSuck = g.pellets,
              !.eatenPellets = <<>>]

\* "Remove eaten pellets (after the black hole has swarmed it)"
FlushSuckedPellets(g) ==
    LET after == RemoveStagedFrom(g.pellets, g.eatenPellets, 1)
    IN  [g EXCEPT !.log.pelletsAtSuck = g.pellets,
                  !.log.pelletsAfterSuck = after,
                  !.pellets = after,
                  !.eatenPellets = <<>>]

\* Sprite.control: the sprite reads the keys
control(g, s) == [g EXCEPT !.log.controlled = Append(@, s)]

RECURSIVE ControlFrom(_, _)
ControlFrom(g, i) ==
    IF i > Len(g.players) THEN g
    ELSE ControlFrom(control(g, g.players[i]), i + 1)

\* "Control the sprites according to the pressed keys."
ControlPlayers(g) == ControlFrom(g, 1)

RECURSIVE SpriteEatsPellets(_, _, _)
SpriteEatsPellets(g, s, j) ==
    IF j > Len(g.pellets) THEN g
    ELSE LET p == g.pellets[j]
         IN  SpriteEatsPellets(IF canEatPellet(g, s, p) THEN eatPellet(g, s, p) ELSE g,
                               s, j + 1)

RECURSIVE EatPelletsFrom(_, _)
EatPelletsFrom(g, i) ==
    IF i > Len(g.players) THEN g
    ELSE EatPelletsFrom(SpriteEatsPellets(g, g.players[i], 1), i + 1)

\* "Sprites eat pellets"
SpritesEatPellets(g) == EatPelletsFrom(g, 1)

\* "Remove eaten pellets"
FlushEatenPellets(g) ==
    LET after == RemoveStagedFrom(g.pellets, g.eatenPellets, 1)
    IN  [g EXCEPT !.log.pelletsAtEat = g.pellets,
                  !.log.pelletsAfterEat = after,
                  !.pellets = after,
                  !.eatenPellets = <<>>]

\* sprite.size: the nominal size the sprite was created with
NominalSize(s) == SpriteSize

\* the body of the inner forEach of "Sprites eat sprites"
PairMeets(g, a, b) ==
    LET g1 == [g EXCEPT !.log.pairs =
                   Append(@, <<a, b, canEatSprite(g, a, b), canEatSprite(g, b, a)>>)]
    IN  IF canEatSprite(g1, a, b)
        THEN eatOtherSprite(g1, a, b, SpriteValue(NominalSize(b)))
        ELSE IF canEatSprite(g1, b, a)
             THEN eatOtherSprite(g1, b, a, SpriteValue(NominalSize(a)))
             ELSE g1

\* this.players.slice( i + 1 ).forEach
RECURSIVE PairsWith(_, _, _)
PairsWith(g, i, j) ==
    IF j > Len(g.players) THEN g
    ELSE PairsWith(PairMeets(g, g.players[i], g.players[j]), i, j + 1)

\* a pair scan that starts the inner loop at the first player
RECURSIVE PairsFromFirst(_, _)
PairsFromFirst(g, i) ==
    IF i > Len(g.players) THEN g
    ELSE PairsFromFirst(PairsWith(g, i, 1), i + 1)

RECURSIVE PairsFrom(_, _)
PairsFrom(g, i) ==
    IF i > Len(g.players) THEN g
    ELSE PairsFrom(PairsWith(g, i, i + 1), i + 1)

\* "Sprites eat sprites"
SpritesEatSprites(g) == PairsFrom(g, 1)

\* a flush that forgets to empty the staging array
FlushEatenSpritesKeepsStage(g) ==
    LET after == RemoveStagedFrom(g.players, g.eatenSprites, 1)
    IN  [g EXCEPT !.log.playersAtFlush = g.players,
                  !.log.playersAfterFlush = after,
                  !.players = after]

\* "Remove eaten sprites"
FlushEatenSprites(g) ==
    LET after == RemoveStagedFrom(g.players, g.eatenSprites, 1)
    IN  [g EXCEPT !.log.playersAtFlush = g.players,
                  !.log.playersAfterFlush = after,
                  !.players = after,
                  !.eatenSprites = <<>>]

\* the smallest pellet identities not in use
RECURSIVE FreshPellets(_, _)
FreshPellets(used, qty) ==
    IF qty = 0 THEN <<>>
    ELSE LET p == CHOOSE q \in PelletIds \ used : \A r \in PelletIds \ used : q <= r
         IN  <<p>> \o FreshPellets(used \cup {p}, qty - 1)

\* placePellets( qty ): qty new pellets, each at a random place
RECURSIVE PlaceFrom(_, _, _)
PlaceFrom(g, new, i) ==
    IF i > Len(new) THEN g
    ELSE PlaceFrom([g EXCEPT !.pellets = Append(@, new[i]),
                             !.log.placed = Append(@, new[i])],
                   new, i + 1)

placePellets(g, qty) ==
    PlaceFrom(g, FreshPellets(Range(g.pellets), qty), 1)

\* placeNewPellets(): replenishes when framesElapsed is due
ReplenishDue(fe) == fe % NewPelletsInterval = 0

\* a replenishment that never places anything
placeNewPelletsNever(g, fe) == g

placeNewPellets(g, fe) ==
    IF ReplenishDue(fe) THEN placePellets(g, NewQuantity) ELSE g

\* the fields of entities that are in no collection carry no information
Canon(g) ==
    [g EXCEPT
       !.spActual = [s \in SpriteIds |-> IF s \in Range(g.players) THEN g.spActual[s] ELSE 0],
       !.bhLife   = [h \in HoleIds |-> IF h \in Range(g.blackHoles) THEN g.bhLife[h] ELSE 0]]

\* the game as a record, for the steps of run()
Game(where, fc) ==
    [players |-> players, pellets |-> pellets, blackHoles |-> blackHoles,
     eatenPellets |-> eatenPellets, eatenSprites |-> eatenSprites,
     deadBlackHoles |-> deadBlackHoles,
     spPos |-> where.sp, spActual |-> spActual, pePos |-> where.pe,
     bhPos |-> where.bh, bhLife |-> bhLife, nHoles |-> nHoles,
     log |-> [EmptyTick EXCEPT !.ran = TRUE, !.frame = fc]]

\* no entity placed: for the methods that ask no predicate
Nowhere == [sp |-> <<>>, pe |-> <<>>, bh |-> <<>>]

\* a run() guard that forgets the pause flag
RunSkipsUnlessStarted == ~Truthy(started)

\* the guard of run(): "Don't run if the game has not been started or is
\* currently paused."
RunSkips == ~Truthy(started) \/ Truthy(paused)

\* the body of run() after the guard, in source order, up to the display calls
RunScans(g, fc, life) ==
    LET g1  == spawnBlackHole(g, fc, life)
        g2  == HazardAction(g1)
        g3  == FlushDeadHazards(g2)
        g4  == FlushSuckedPellets(g3)
        g5  == ControlPlayers(g4)
        g6  == SpritesEatPellets(g5)
        g7  == FlushEatenPellets(g6)
        g8  == SpritesEatSprites(g7)
    IN  FlushEatenSprites(g8)

\* the sprites that did something in a tick, and the black holes that sucked
SpriteActors(log) ==
    Range(log.controlled) \cup {e[1] : e \in Range(log.atePellet)}
                          \cup {e[1] : e \in Range(log.ateSprite)}
\* the sprites a black hole drained to actualSize <= 0 in a tick
Drained(log) == {e[2] : e \in {d \in Range(log.drains) : d[3] <= 0}}

HoleActors(log) ==
    {e[1] : e \in Range(log.sucked)} \cup {e[1] : e \in Range(log.drains)}

\* ---- the public methods -------------------------------------------------

Touch(op) ==
    /\ lastOp' = op
    /\ tick' = EmptyTick
    /\ quietTicks' = quietTicks

\* addPlayer( player ): a sprite not yet in the game
addPlayer ==
    /\ nSprites < MaxPlayers
    /\ LET s == nSprites + 1
       IN  /\ players' = Append(players, s)
           /\ spActual' = [spActual EXCEPT ![s] = SpriteSize]
           /\ nSprites' = s
    /\ Touch("addPlayer")
    /\ UNCHANGED <<pellets, blackHoles, eatenPellets, eatenSprites, deadBlackHoles,
                   framesElapsed, started, paused, bhLife,
                   nHoles, drainedEver, deadEver, pauseHeld, pauseInForce>>

\* placePellets( qty ) called by the application
PlacePellets(qty) ==
    /\ Len(pellets) + qty <= MaxPellets
    /\ pellets' = placePellets(Game(Nowhere, 0), qty).pellets
    /\ Touch("placePellets")
    /\ UNCHANGED <<players, blackHoles, eatenPellets, eatenSprites, deadBlackHoles,
                   framesElapsed, started, paused, entVars, drainedEver, deadEver,
                   pauseHeld, pauseInForce>>

\* a start() condition that is content with players or pellets
CanStartWithEither == Len(players) > 0 \/ Len(pellets) > 0

\* the condition of start()
CanStart == Len(players) > 0 /\ Len(pellets) > 0

start ==
    /\ IF CanStart
       THEN started' = "true" /\ paused' = "false" /\ pauseInForce' = FALSE
       ELSE UNCHANGED <<started, paused, pauseInForce>>
    /\ Touch("start")
    /\ UNCHANGED <<players, pellets, blackHoles, eatenPellets, eatenSprites,
                   deadBlackHoles, framesElapsed, entVars,
                   drainedEver, deadEver, pauseHeld>>

\* an update() that leaves the counter as it is
updateIgnoresArgument(fc) ==
    /\ framesElapsed' = framesElapsed
    /\ lastOp' = "update"
    /\ tick' = [EmptyTick EXCEPT !.frame = fc]
    /\ UNCHANGED <<players, pellets, blackHoles, eatenPellets, eatenSprites,
                   deadBlackHoles, started, paused, entVars,
                   drainedEver, deadEver, pauseHeld, pauseInForce, quietTicks>>

\* update( frameCount ); the argument is recorded in tick.frame
update(fc) ==
    /\ framesElapsed' = fc
    /\ lastOp' = "update"
    /\ tick' = [EmptyTick EXCEPT !.frame = fc]
    /\ UNCHANGED <<players, pellets, blackHoles, eatenPellets, eatenSprites,
                   deadBlackHoles, started, paused, entVars,
                   drainedEver, deadEver, pauseHeld, pauseInForce, quietTicks>>

\* a pause() that toggles the flag
pauseToggles ==
    /\ paused' = IF Truthy(paused) THEN "false" ELSE "true"
    /\ pauseHeld' = TRUE /\ pauseInForce' = TRUE
    /\ Touch("pause")
    /\ UNCHANGED <<players, pellets, blackHoles, eatenPellets, eatenSprites,
                   deadBlackHoles, framesElapsed, started, entVars,
                   drainedEver, deadEver>>

pause ==
    /\ paused' = "true"
    /\ pauseHeld' = TRUE /\ pauseInForce' = TRUE
    /\ Touch("pause")
    /\ UNCHANGED <<players, pellets, blackHoles, eatenPellets, eatenSprites,
                   deadBlackHoles, framesElapsed, started, entVars,
                   drainedEver, deadEver>>

continue ==
    /\ paused' = "false"
    /\ pauseHeld' = FALSE /\ pauseInForce' = FALSE
    /\ Touch("continue")
    /\ UNCHANGED <<players, pellets, blackHoles, eatenPellets, eatenSprites,
                   deadBlackHoles, framesElapsed, started, entVars,
                   drainedEver, deadEver>>

\* run() while not started or paused: returns at once
RunIdle ==
    /\ RunSkips
    /\ Touch("run")
    /\ UNCHANGED <<gameVars, entVars, drainedEver, deadEver,
                   pauseHeld, pauseInForce>>

\* run() while running: one tick
RunTick(fc, life, where) ==
    /\ ~RunSkips
    /\ SpawnDue(fc) => nHoles < MaxHoles
    /\ \E g9 \in {RunScans(Game(where, fc), fc, life)} :
         /\ ReplenishDue(framesElapsed) => Len(g9.pellets) + NewQuantity <= MaxPellets
         /\ \E g \in {Canon(placeNewPellets(g9, framesElapsed))} :
           /\ players' = g.players
           /\ pellets' = g.pellets
           /\ blackHoles' = g.blackHoles
           /\ eatenPellets' = g.eatenPellets
           /\ eatenSprites' = g.eatenSprites
           /\ deadBlackHoles' = g.deadBlackHoles
           /\ spActual' = g.spActual
           /\ bhLife' = g.bhLife
           /\ nHoles' = g.nHoles
           /\ tick' = [g.log EXCEPT !.lateSprites = SpriteActors(g.log) \cap drainedEver,
                                    !.lateHoles = HoleActors(g.log) \cap deadEver,
                                    !.quietBefore = quietTicks]
           /\ quietTicks' = IF g.log.placed # <<>> THEN 0
                            ELSE IF quietTicks < QuietCap THEN quietTicks + 1
                                 ELSE QuietCap
           /\ drainedEver' = drainedEver \cup Drained(g.log)
           /\ deadEver' = deadEver \cup Range(g.log.dead)
    /\ lastOp' = "run"
    /\ UNCHANGED <<framesElapsed, started, paused, nSprites,
                   pauseHeld, pauseInForce>>

\* the black holes a tick with frame counter fc can meet: those alive and
\* the one it spawns
HolesMet(fc) == Range(blackHoles) \cup (IF SpawnDue(fc) THEN {nHoles + 1} ELSE {})

\* run(): the global frameCount, the configured lifeSpan and the places of
\* the entities on the canvas, as the eligibility predicates see them, are
\* the inputs of the tick; the places being interchangeable, the first
\* player stands in place 1
run ==
    \/ RunIdle
    \/ \E fc \in 0..MaxFrame :
          \E life \in (IF SpawnDue(fc) THEN 1..MaxLife ELSE {1}) :
             \E sp \in [Range(players) -> Cells], pe \in [Range(pellets) -> Cells],
                bh \in [HolesMet(fc) -> Cells] :
                /\ players # <<>> => sp[players[1]] = 1
                /\ RunTick(fc, life, [sp |-> sp, pe |-> pe, bh |-> bh])

\* the animation loop calls something else between two calls of run()
Next ==
    \/ addPlayer
    \/ \E qty \in 1..MaxPellets : PlacePellets(qty)
    \/ start
    \/ \E fc \in 0..MaxFrame : update(fc)
    \/ pause
    \/ continue
    \/ (lastOp # "run" /\ run)

Spec == Init /\ [][Next]_vars

\* ---- the claims ---------------------------------------------------------

Collections == <<players, pellets, blackHoles, eatenPellets, eatenSprites,
                 deadBlackHoles>>

\* C1: a run() called while the game is not started, or while it is paused,
\* changes none of players, pellets, blackHoles, eatenPellets, eatenSprites,
\* deadBlackHoles and framesElapsed.
C1_IdleRunChangesNothing ==
    [][(lastOp' = "run" /\ (started # "true" \/ paused = "true"))
         => UNCHANGED <<Collections, framesElapsed>>]_vars

\* a run() returned at once on a started, paused game that has entities
C1_Witness ==
    /\ lastOp = "run" /\ ~tick.ran
    /\ started = "true" /\ paused = "true"
    /\ players # <<>> /\ pellets # <<>>

\* C2: start() with no player or no pellet leaves started and paused as they
\* were; start() with at least one player and one pellet leaves the game
\* started and not paused.
C2_StartPrecondition ==
    [][lastOp' = "start"
         => IF Len(players) > 0 /\ Len(pellets) > 0
            THEN started' = "true" /\ paused' = "false"
            ELSE started' = started /\ paused' = paused]_vars

\* start() was refused on a game that has a player but no pellet
C2_Witness ==
    /\ lastOp = "start" /\ started = "undefined"
    /\ players # <<>> /\ pellets = <<>>

\* C3 as stated: after pause(), no run() advances the simulation as long as
\* continue() has not been called.
C3_PausedUntilContinue ==
    (lastOp = "run" /\ pauseHeld) => ~tick.ran

\* C3 amended: after pause(), no run() advances the simulation as long as
\* neither continue() nor a start() that finds a player and a pellet has
\* been called.
C3_PausedUntilContinueOrStart ==
    (lastOp = "run" /\ pauseInForce) => ~tick.ran

\* run() returned at once on a started game whose pause is still in force
C3_Witness ==
    /\ lastOp = "run" /\ pauseInForce /\ ~tick.ran
    /\ started = "true" /\ blackHoles # <<>>

\* C4 as stated: pause() on a paused game and continue() on a game that is
\* not paused leave the whole game unchanged, and neither ever changes a
\* collection or framesElapsed.
C4_PauseContinueNoOps ==
    [][/\ (lastOp' = "pause" /\ paused = "true") => UNCHANGED <<gameVars, entVars>>
       /\ (lastOp' = "continue" /\ paused # "true") => UNCHANGED <<gameVars, entVars>>
       /\ lastOp' \in {"pause", "continue"} => UNCHANGED <<Collections, framesElapsed>>
      ]_vars

\* C5: between two calls of the public methods the three staging arrays are
\* empty.
C5_StagingEmpty ==
    eatenPellets = <<>> /\ eatenSprites = <<>> /\ deadBlackHoles = <<>>

\* a tick that staged a pellet, a sprite and a dead black hole has ended
C5_Witness ==
    /\ lastOp = "run" /\ tick.ran
    /\ tick.atePellet # <<>> /\ tick.ateSprite # <<>> /\ tick.dead # <<>>
    /\ C5_StagingEmpty

\* the pellets eaten by sprites in a tick
EatenPellets(log) == {e[2] : e \in Range(log.atePellet)}

\* s without the elements of the set gone, order kept
Without(s, gone) == SelectSeq(s, LAMBDA x : x \notin gone)

\* C6: the flush after the sprites have eaten removes every eaten pellet
\* from pellets, lowers the count by one for each eaten pellet, and removes
\* no pellet that was not eaten, however many players were eligible.
C6_EatenPelletsRemovedOnce ==
    (lastOp = "run" /\ tick.ran)
        => /\ Range(tick.pelletsAfterEat) =
                  Range(tick.pelletsAtEat) \ EatenPellets(tick)
           /\ Len(tick.pelletsAfterEat) =
                  Len(tick.pelletsAtEat) - Cardinality(EatenPellets(tick))

\* C7: a sprite drained to actualSize <= 0 by a black hole is not
\* in players when the tick ends and does nothing after the drain, neither
\* in that tick nor in a later one.
C7_DrainedNeverActs ==
    (lastOp = "run" /\ tick.ran)
        => /\ Drained(tick) \cap Range(players) = {}
           /\ Drained(tick) \cap SpriteActors(tick) = {}
           /\ tick.lateSprites = {}

\* the pairs <<players[i], players[j]>> with i < j, in scan order
RECURSIVE PairsOf(_, _, _)
PairsOf(s, i, j) ==
    IF i > Len(s) THEN <<>>
    ELSE IF j > Len(s) THEN PairsOf(s, i + 1, i + 2)
         ELSE <<<<s[i], s[j]>>>> \o PairsOf(s, i, j + 1)

\* the eatings of a tick between the two sprites a and b
Eatings(log, a, b) ==
    {k \in 1..Len(log.ateSprite) :
        <<log.ateSprite[k][1], log.ateSprite[k][2]>> \in {<<a, b>>, <<b, a>>}}

\* C8: a tick examines every unordered pair of distinct players exactly
\* once; for a pair at most one of the two eats the other; when both
\* directions are eligible the lower-index player eats the higher-index one.
C8_PairsOnceOneDirection ==
    (lastOp = "run" /\ tick.ran)
        => /\ [k \in 1..Len(tick.pairs) |-> <<tick.pairs[k][1], tick.pairs[k][2]>>]
                  = PairsOf(tick.playersAtFlush, 1, 2)
           /\ \A k \in 1..Len(tick.pairs) :
                 LET a == tick.pairs[k][1]
                     b == tick.pairs[k][2]
                 IN  /\ Cardinality(Eatings(tick, a, b)) <= 1
                     /\ (tick.pairs[k][3] /\ tick.pairs[k][4])
                           => \E e \in Eatings(tick, a, b) :
                                 /\ tick.ateSprite[e][1] = a
                                 /\ tick.ateSprite[e][2] = b

\* a tick with three players met a pair that could eat each other, and a
\* pair in which only the higher-index player could eat
C8_Witness ==
    /\ lastOp = "run" /\ tick.ran
    /\ Len(tick.pairs) = 3
    /\ \E k \in 1..Len(tick.pairs) : tick.pairs[k][3] /\ tick.pairs[k][4]
    /\ \E k \in 1..Len(tick.pairs) : ~tick.pairs[k][3] /\ tick.pairs[k][4]

\* C9: a black hole found dead by isDead is not in blackHoles when that tick
\* ends, whatever its position and however many black holes there are, and
\* it sucks nothing in a later tick.
C9_DeadHolesRemoved ==
    (lastOp = "run" /\ tick.ran)
        => /\ Range(tick.dead) \cap Range(blackHoles) = {}
           /\ tick.lateHoles = {}

\* C10: the flush of the dead black holes removes only the staged ones: the
\* black holes not found dead are still there, in the same order.
C10_LiveHolesKept ==
    (lastOp = "run" /\ tick.ran)
        => Without(tick.holesAfterFlush, Range(tick.dead))
              = Without(tick.holesAtFlush, Range(tick.dead))

\* the sprites eaten by another sprite in a tick
EatenVictims(log) == {e[2] : e \in Range(log.ateSprite)}

\* C11: the flush of the eaten sprites removes only staged sprites: a player
\* neither drained to actualSize <= 0 by a black hole nor eaten by a sprite
\* in the tick is still in players when the tick ends.
C11_UnstagedPlayersKept ==
    (lastOp = "run" /\ tick.ran)
        => \A s \in Range(tick.playersAtFlush) :
              s \notin (Drained(tick) \cup EatenVictims(tick))
                 => s \in Range(players)

\* C12: in the scan "Sprites eat pellets" of one tick eatPellet is called for
\* a pellet by at most one player: no pellet is eaten, and staged, twice.
C12_PelletEatenOncePerTick ==
    (lastOp = "run" /\ tick.ran)
        => \A i, j \in 1..Len(tick.atePellet) :
              tick.atePellet[i][2] = tick.atePellet[j][2] => i = j

\* the pellets sucked by a black hole in a tick
SuckedPellets(log) == {e[2] : e \in Range(log.sucked)}

\* C13: the pellets sucked by a black hole are flushed before the sprites
\* scan: a pellet sucked in a tick is not in pellets when "Sprites eat
\* pellets" runs, and no sprite eats it in that tick.
C13_SuckedFlushedBeforeSpritesEat ==
    (lastOp = "run" /\ tick.ran)
        => /\ SuckedPellets(tick) \cap Range(tick.pelletsAfterSuck) = {}
           /\ SuckedPellets(tick) \cap Range(tick.pelletsAtEat) = {}
           /\ SuckedPellets(tick) \cap EatenPellets(tick) = {}

\* a tick in which a black hole sucked one of two pellets and a sprite ate
\* the other
C13_Witness ==
    /\ lastOp = "run" /\ tick.ran
    /\ Len(tick.pelletsAtSuck) = 2
    /\ Cardinality(SuckedPellets(tick)) = 1
    /\ tick.atePellet # <<>>

\* C14: when a sprite eats another, the value given to the victim just
\* before eatOtherSprite is the configured value function of the victim's
\* actualSize at that moment.
C14_VictimValueFromCurrentSize ==
    (lastOp = "run" /\ tick.ran)
        => \A k \in 1..Len(tick.ateSprite) :
              tick.ateSprite[k][3] = SpriteValue(tick.ateSprite[k][4])

\* C15: a running tick creates exactly one black hole when framesElapsed, as
\* last set by update(), is a multiple of the spawn interval, and none
\* otherwise.
C15_SpawnFollowsFramesElapsed ==
    (lastOp = "run" /\ tick.ran)
        => Len(tick.spawned) = (IF framesElapsed % SpawnInterval = 0 THEN 1 ELSE 0)

\* the replenishment of a tick: the last step, newQuantity new pellets
\* appended when framesElapsed is a multiple of the interval, none otherwise
ReplenishedWhenDue ==
    /\ Len(tick.placed) =
          (IF framesElapsed % NewPelletsInterval = 0 THEN NewQuantity ELSE 0)
    /\ pellets = tick.pelletsAfterEat \o tick.placed
    /\ Range(tick.placed) \cap Range(tick.pelletsAfterEat) = {}

\* C16 as stated: a tick replenishes exactly when framesElapsed is a multiple
\* of the interval, as its last step, and two replenishing ticks are a whole
\* interval of running ticks apart.
C16_ReplenishEveryInterval ==
    (lastOp = "run" /\ tick.ran)
        => /\ ReplenishedWhenDue
           /\ tick.placed # <<>> => tick.quietBefore = QuietCap

\* C16 amended: a tick replenishes exactly when framesElapsed is a multiple
\* of the interval, as its last step (how far apart two replenishing ticks
\* are is decided by the calls of update() alone).
C16_ReplenishWhenDue ==
    (lastOp = "run" /\ tick.ran) => ReplenishedWhenDue

\* a tick in which a sprite ate a pellet has replenished after the flush,
\* the running tick before it having replenished too
C16_Witness ==
    /\ lastOp = "run" /\ tick.ran
    /\ tick.atePellet # <<>> /\ tick.pelletsAfterEat # <<>>
    /\ Len(tick.placed) = NewQuantity
    /\ tick.quietBefore = 0

\* C17: update( frameCount ) sets framesElapsed to its argument, and no other
\* method (a running run() tick, start, pause, continue, addPlayer,
\* placePellets) changes framesElapsed.
C17_OnlyUpdateSetsFramesElapsed ==
    [][IF lastOp' = "update"
       THEN framesElapsed' = tick'.frame
       ELSE framesElapsed' = framesElapsed]_vars

\* a running tick that spawned and replenished has ended with framesElapsed
\* still at the value an earlier update() gave it
C17_Witness ==
    /\ lastOp = "run" /\ tick.ran
    /\ framesElapsed = 1 /\ tick.frame = 0
    /\ tick.spawned # <<>>

\* C18: no live collection changes while it is being scanned.  blackHoles is
\* the same from the spawn to the end of the black hole scan; pellets is the
\* same from the start of the tick to the end of the black hole scan, and
\* from the first flush to the end of "Sprites eat pellets"; players is the
\* same from the start of the tick to the end of "Sprites eat sprites".
C18_NoChangeDuringScan ==
    [][(lastOp' = "run" /\ tick'.ran)
         => /\ tick'.holesAtFlush = blackHoles \o tick'.spawned
            /\ tick'.pelletsAtSuck = pellets
            /\ tick'.pelletsAtEat = tick'.pelletsAfterSuck
            /\ tick'.playersAtFlush = players]_vars

\* a tick staged in every scan (a sucked pellet, a drained sprite, a dead
\* black hole, an eaten pellet, an eaten sprite) and each flush removed
\* something
C18_Witness ==
    /\ lastOp = "run" /\ tick.ran
    /\ tick.sucked # <<>> /\ Drained(tick) # {} /\ tick.dead # <<>>
    /\ tick.atePellet # <<>> /\ tick.ateSprite # <<>>
    /\ tick.holesAfterFlush # tick.holesAtFlush
    /\ tick.pelletsAfterSuck # tick.pelletsAtSuck
    /\ tick.pelletsAfterEat # tick.pelletsAtEat
    /\ tick.playersAfterFlush # tick.playersAtFlush

\* the sprites staged into eatenSprites before the k-th eating of a tick: the
\* drained ones and the victims of the eatings before it
StagedBefore(log, k) ==
    Drained(log) \cup {log.ateSprite[j][2] : j \in 1..(k-1)}

\* C19: a sprite staged into eatenSprites in a tick (drained by a black hole,
\* or eaten in an earlier pair) does not afterwards eat a pellet, eat a
\* sprite, or get eaten again in that tick.
C19_StagedSpriteTakesNoPart ==
    (lastOp = "run" /\ tick.ran)
        => /\ \A e \in Range(tick.atePellet) : e[1] \notin Drained(tick)
           /\ \A k \in 1..Len(tick.ateSprite) :
                 /\ tick.ateSprite[k][1] \notin StagedBefore(tick, k)
                 /\ tick.ateSprite[k][2] \notin StagedBefore(tick, k)

====
